---- MODULE Spec2Model ----
(***************************************************************************)
(* Workflow engine of the workflow-architecture example                    *)
(* (providers/WorkflowProvider: workflowReducer, engine, executeStep,      *)
(* findNextStep, areDependenciesMet, createWorkflowContext).               *)
(*                                                                         *)
(* The engine object and its helpers are closures created on every render  *)
(* of WorkflowProvider.  They read `state`, the value useReducer returned  *)
(* for that render; `dispatch` updates the reducer state, never the        *)
(* `state` binding the running closure holds.  So one engine call reads    *)
(* the state of the render it was created in (closureState below) for its  *)
(* whole duration, while its dispatches are folded into the reducer state  *)
(* (the variable state).  A caller takes the engine of the latest render;  *)
(* a hook still waiting on a timer keeps the engine of the render in which *)
(* its step was activated.                                                 *)
(***************************************************************************)
EXTENDS Integers, Sequences, FiniteSets, TLC

----------------------------------------------------------------------------
(* Bounds *)

\* the history array is never cleared by the reducer: cap its length
MaxHistory == 2
\* onActivate hooks waiting on a timer at the same time
MaxPending == 1

----------------------------------------------------------------------------
(* Values *)

NoWorkflow == "undefined"
NoStep == "undefined"
NoScreen == "undefined"
NoCondition == "undefined"
NoHook == "undefined"
Undef == "undefined"

Keys == {"k", "j"}

\* Record<string, any> over the keys of the model
EmptyData == [key \in Keys |-> Undef]
DataOf(key, value) == [EmptyData EXCEPT ![key] = value]

\* { ...a, ...b }
Spread(a, b) == [key \in Keys |-> IF b[key] # Undef THEN b[key] ELSE a[key]]

\* WorkflowEvents
WORKFLOW_STARTED == "workflow:started"
WORKFLOW_COMPLETED == "workflow:completed"
WORKFLOW_CANCELLED == "workflow:cancelled"
WORKFLOW_PAUSED == "workflow:paused"
WORKFLOW_RESUMED == "workflow:resumed"
STEP_STARTED == "workflow:step:started"
STEP_COMPLETED == "workflow:step:completed"

----------------------------------------------------------------------------
(* Workflow definitions handed to registerWorkflow *)

Step(id, screen, required, headless, dependencies, completionCondition, onActivate, onComplete) ==
  [id |-> id, screen |-> screen, completed |-> FALSE, required |-> required,
   headless |-> headless, dependencies |-> dependencies,
   completionCondition |-> completionCondition,
   onActivate |-> onActivate, onComplete |-> onComplete,
   navigationParams |-> EmptyData]

\* '{{key}}'
Placeholder(key) == "{{" \o key \o "}}"

\* navigationParams: { k: '{{k}}' }
ParamsTemplate == [key \in Keys |-> IF key = "k" THEN Placeholder("k") ELSE Undef]

\* completionCondition "k" is context => !!context.data.k, which is also the
\* predicate addConditionalStep builds for a step with no predicate of its own
\* under the guard context => !context.data.k (guard false: k is set).
\* onActivate bodies: "set" calls context.setData("k", "v1") and returns;
\* "later" awaits a timer and then calls context.completeStep(<own id>)
StepDefs ==
  << Step("A", "ScreenA", TRUE,  FALSE, {},    NoCondition, NoHook,  TRUE),
     Step("C", "ScreenC", FALSE, FALSE, {"A"}, "k",         NoHook,  FALSE),
     [Step("B", "ScreenB", TRUE,  FALSE, {"A"}, NoCondition, NoHook,  FALSE)
        EXCEPT !.navigationParams = ParamsTemplate],
     Step("Y", "ScreenY", TRUE,  TRUE,  {},    "k",         "set",   FALSE),
     Step("Z", NoScreen,  TRUE,  TRUE,  {"Y"}, NoCondition, "later", FALSE) >>

StepIds == {StepDefs[i].id : i \in DOMAIN StepDefs}
StepDef(stepId) == StepDefs[CHOOSE i \in DOMAIN StepDefs : StepDefs[i].id = stepId]

\* F names a dependency (A) that is none of its steps: registerWorkflow takes
\* the definition as it is
WorkflowDefs ==
  [W |-> [id |-> "W", steps |-> <<"A", "C", "B">>, pausable |-> FALSE,
          onStart |-> TRUE, onComplete |-> TRUE, onCancel |-> FALSE],
   H |-> [id |-> "H", steps |-> <<"Y", "Z">>, pausable |-> TRUE,
          onStart |-> FALSE, onComplete |-> TRUE, onCancel |-> TRUE],
   F |-> [id |-> "F", steps |-> <<"C", "B">>, pausable |-> TRUE,
          onStart |-> FALSE, onComplete |-> FALSE, onCancel |-> FALSE],
   G |-> [id |-> "G", steps |-> <<"Y", "Z", "A">>, pausable |-> TRUE,
          onStart |-> FALSE, onComplete |-> FALSE, onCancel |-> FALSE]]

\* the definitions the runs of Spec register and start; G, whose timer step
\* is followed by a step with no dependency, is run on its own by SpecTimer
WorkflowIds == {"W", "H", "F"}
\* an id no definition carries
UnknownId == "unknown"

StepsOf(workflowId) == {WorkflowDefs[workflowId].steps[i] : i \in DOMAIN WorkflowDefs[workflowId].steps}
RequiredOf(workflowId) == {s \in StepsOf(workflowId) : StepDef(s).required}

\* workflow.steps.findIndex(s => s.id === stepId), 1-based, 0 when absent
IndexOf(workflowId, stepId) ==
  LET steps == WorkflowDefs[workflowId].steps
  IN IF \E i \in DOMAIN steps : steps[i] = stepId
     THEN CHOOSE i \in DOMAIN steps : steps[i] = stepId
     ELSE 0

----------------------------------------------------------------------------
VARIABLES
  registry,   \* workflowRegistry: ids of the registered definitions
  state,      \* the reducer state (WorkflowState)
  effects,    \* what the last call sent out: emitted events, hook invocations, navigate calls
  pending,    \* onActivate hooks waiting on their timer, each with the state its engine closed over
  threw,      \* whether the last call threw
  candidate,  \* the definition handed to WorkflowUtils.validate
  report      \* what validate returned for it

vars == <<registry, state, effects, pending, threw, candidate, report>>

\* no definition has been handed to validate, validate has not returned
NoCandidate == [id |-> "", name |-> "", steps |-> <<>>]
NoReport == [valid |-> FALSE, errors |-> {[kind |-> "not validated", stepId |-> "", depId |-> ""]}]

\* const initialState
initialState ==
  [activeWorkflow |-> NoWorkflow, completed |-> {}, currentStepId |-> NoStep,
   paused |-> FALSE, history |-> <<>>, data |-> EmptyData]

----------------------------------------------------------------------------
(* Reducer *)

\* COMPLETE_STEP with the payload's data spread into the data mapping
reduceCompleteStepMerging(st, action) ==
  IF st.activeWorkflow = NoWorkflow THEN st
  ELSE [st EXCEPT !.completed =
          st.completed \cup ({action.stepId} \cap StepsOf(st.activeWorkflow)),
                  !.data = Spread(st.data, action.data)]

\* case 'COMPLETE_STEP'
reduceCompleteStep(st, action) ==
  IF st.activeWorkflow = NoWorkflow THEN st
  ELSE [st EXCEPT !.completed =
          st.completed \cup ({action.stepId} \cap StepsOf(st.activeWorkflow))]

workflowReducer(st, action) ==
  CASE action.type = "START_WORKFLOW" ->
         [st EXCEPT !.activeWorkflow = action.workflow,
                    !.completed = {s \in StepsOf(action.workflow) : StepDef(s).completed},
                    !.currentStepId = NoStep,
                    !.paused = FALSE,
                    !.data = Spread(st.data, action.data)]
    [] action.type = "STOP_WORKFLOW" ->
         [st EXCEPT !.activeWorkflow = NoWorkflow, !.completed = {},
                    !.currentStepId = NoStep, !.paused = FALSE]
    [] action.type = "PAUSE_WORKFLOW" -> [st EXCEPT !.paused = TRUE]
    [] action.type = "RESUME_WORKFLOW" -> [st EXCEPT !.paused = FALSE]
    [] action.type = "COMPLETE_STEP" -> reduceCompleteStep(st, action)
    [] action.type = "SET_CURRENT_STEP" -> [st EXCEPT !.currentStepId = action.stepId]
    [] action.type = "SET_WORKFLOW_DATA" ->
         [st EXCEPT !.data = [st.data EXCEPT ![action.key] = action.value]]
    [] action.type = "ADD_HISTORY_ENTRY" ->
         [st EXCEPT !.history = Append(st.history,
            [workflowId |-> action.workflowId, stepId |-> action.stepId, data |-> action.data])]
    [] OTHER -> st

----------------------------------------------------------------------------
(* The engine.  m is the world a running call acts on: the reducer state,  *)
(* the effects sent out so far and the hooks left waiting; cs is the state *)
(* the running closure captured.  m.raises names the listener or hook that *)
(* raises when this call reaches it (NoRaise: none does); once something   *)
(* has been thrown (m.threw) the rest of the call is not executed.         *)

NoRaise == [kind |-> "none", name |-> "none"]

Closure(st) == [activeWorkflow |-> st.activeWorkflow, completed |-> st.completed, data |-> st.data]

\* a dispatch whose START_WORKFLOW begins the new run with an empty history
dispatchFreshHistory(m, action) ==
  LET st == workflowReducer(m.state, action)
  IN IF m.threw THEN m
     ELSE [m EXCEPT !.state = IF action.type = "START_WORKFLOW" THEN [st EXCEPT !.history = <<>>] ELSE st]

dispatch(m, action) ==
  IF m.threw THEN m ELSE [m EXCEPT !.state = workflowReducer(m.state, action)]

Effect(kind, name, workflowId, stepId, data) ==
  [kind |-> kind, name |-> name, workflowId |-> workflowId, stepId |-> stepId, data |-> data]

\* DeviceEventEmitter.emit, called with no try/catch around it: what a
\* listener throws comes out of emit into the engine function
emit(m, type, workflowId, stepId, data) ==
  IF m.threw THEN m
  ELSE [m EXCEPT !.effects = Append(m.effects, Effect("emit", type, workflowId, stepId, data)),
                 !.threw = (m.raises = [kind |-> "emit", name |-> type])]

\* a hook or predicate invoked with createWorkflowContext(...): data is
\* state.data of the closure; the engine awaits it with no try/catch
invoke(m, cs, hook, workflowId, stepId) ==
  IF m.threw THEN m
  ELSE [m EXCEPT !.effects = Append(m.effects, Effect("hook", hook, workflowId, stepId, cs.data)),
                 !.threw = (m.raises = [kind |-> "hook", name |-> hook])]

\* navigation.navigate(step.screen, step.navigationParams)
navigate(m, cs, stepId) ==
  IF m.threw THEN m
  ELSE [m EXCEPT !.effects = Append(m.effects,
          Effect("navigate", StepDef(stepId).screen, cs.activeWorkflow, stepId,
                 StepDef(stepId).navigationParams))]

\* context.setData
setData(m, key, value) == dispatch(m, [type |-> "SET_WORKFLOW_DATA", key |-> key, value |-> value])

areDependenciesMet(stepId, cs) ==
  \A depId \in StepDef(stepId).dependencies :
     depId \in StepsOf(cs.activeWorkflow) /\ depId \in cs.completed

\* 0 when no step qualifies, else the 1-based index of the step found
findNextStep(cs, currentStepId) ==
  LET steps == WorkflowDefs[cs.activeWorkflow].steps
      currentIndex == IndexOf(cs.activeWorkflow, currentStepId)
      found == {i \in DOMAIN steps : /\ i > currentIndex
                                     /\ steps[i] \notin cs.completed
                                     /\ areDependenciesMet(steps[i], cs)}
  IN IF found = {} THEN 0 ELSE CHOOSE i \in found : \A j \in found : i <= j

\* step.completionCondition(context)
completionCondition(stepId, cs) == cs.data[StepDef(stepId).completionCondition] # Undef

RECURSIVE completeStep(_, _, _, _)
RECURSIVE executeStep(_, _, _)

\* an executeStep that navigates to the screen of any step that has one
executeStepTailAnyScreen(m, cs, stepId) ==
  LET step == StepDef(stepId)
      m1 == IF step.screen # NoScreen THEN navigate(m, cs, stepId) ELSE m
  IN IF step.headless /\ step.completionCondition # NoCondition
     THEN LET m2 == invoke(m1, cs, "completionCondition", cs.activeWorkflow, stepId)
          IN IF completionCondition(stepId, cs)
             THEN completeStep(m2, cs, stepId, EmptyData)
             ELSE m2
     ELSE m1

\* executeStep from the navigation on (what follows `await step.onActivate(...)`)
executeStepTail(m, cs, stepId) ==
  LET step == StepDef(stepId)
      m1 == IF ~step.headless /\ step.screen # NoScreen THEN navigate(m, cs, stepId) ELSE m
  IN IF step.headless /\ step.completionCondition # NoCondition
     THEN LET m2 == invoke(m1, cs, "completionCondition", cs.activeWorkflow, stepId)
          IN IF completionCondition(stepId, cs)
             THEN completeStep(m2, cs, stepId, EmptyData)
             ELSE m2
     ELSE m1

executeStep(m, cs, stepId) ==
  IF cs.activeWorkflow = NoWorkflow THEN m
  ELSE
    LET step == StepDef(stepId)
        m1 == dispatch(m, [type |-> "SET_CURRENT_STEP", stepId |-> stepId])
        m2 == emit(m1, STEP_STARTED, cs.activeWorkflow, stepId, EmptyData)
    IN IF step.onActivate = NoHook THEN executeStepTail(m2, cs, stepId)
       ELSE LET m3 == invoke(m2, cs, "onActivate", cs.activeWorkflow, stepId)
            IN IF step.onActivate = "later"
               THEN \* suspended on the timer; the rest runs when it fires
                    IF m3.threw THEN m3
                    ELSE [m3 EXCEPT !.pending = @ \cup {[closureState |-> cs, stepId |-> stepId]}]
               ELSE executeStepTail(setData(m3, "k", "v1"), cs, stepId)

completeStep(m, cs, stepId, data) ==
  IF cs.activeWorkflow = NoWorkflow THEN m
  ELSE IF stepId \notin StepsOf(cs.activeWorkflow) THEN m
  ELSE
    LET step == StepDef(stepId)
        m1 == dispatch(m, [type |-> "COMPLETE_STEP", stepId |-> stepId, data |-> data])
        m2 == dispatch(m1, [type |-> "ADD_HISTORY_ENTRY", workflowId |-> cs.activeWorkflow,
                            stepId |-> stepId, data |-> data])
        m3 == emit(m2, STEP_COMPLETED, cs.activeWorkflow, stepId, data)
        m4 == IF step.onComplete THEN invoke(m3, cs, "step.onComplete", cs.activeWorkflow, stepId)
              ELSE m3
        allRequiredStepsComplete ==
          \A s \in RequiredOf(cs.activeWorkflow) : s \in cs.completed \/ s = stepId
    IN IF allRequiredStepsComplete
       THEN LET m5 == emit(m4, WORKFLOW_COMPLETED, cs.activeWorkflow, NoStep, EmptyData)
                m6 == IF WorkflowDefs[cs.activeWorkflow].onComplete
                      THEN invoke(m5, cs, "onComplete", cs.activeWorkflow, NoStep)
                      ELSE m5
            IN dispatch(m6, [type |-> "STOP_WORKFLOW"])
       ELSE LET next == findNextStep(cs, stepId)
            IN IF next = 0 THEN m4
               ELSE executeStep(m4, cs, WorkflowDefs[cs.activeWorkflow].steps[next])

\* workflow.steps.find(step => !step.completed) on the registered definition
firstIncompleteStep(workflowId) ==
  LET steps == WorkflowDefs[workflowId].steps
      found == {i \in DOMAIN steps : ~StepDef(steps[i]).completed}
  IN IF found = {} THEN 0 ELSE CHOOSE i \in found : \A j \in found : i <= j

\* a startWorkflow that dispatches START_WORKFLOW only after onStart has returned
startRegisteredHookFirst(m, cs, workflowId, data) ==
  LET m1 == emit(m, WORKFLOW_STARTED, workflowId, NoStep, EmptyData)
      m2 == IF WorkflowDefs[workflowId].onStart
            THEN invoke(m1, cs, "onStart", workflowId, NoStep)
            ELSE m1
      m3 == dispatch(m2, [type |-> "START_WORKFLOW", workflow |-> workflowId, data |-> data])
      first == firstIncompleteStep(workflowId)
  IN IF first = 0 THEN m3
     ELSE executeStep(m3, cs, WorkflowDefs[workflowId].steps[first])

\* startWorkflow once the registry lookup has succeeded
startRegistered(m, cs, workflowId, data) ==
  LET m1 == dispatch(m, [type |-> "START_WORKFLOW", workflow |-> workflowId, data |-> data])
      m2 == emit(m1, WORKFLOW_STARTED, workflowId, NoStep, EmptyData)
      m3 == IF WorkflowDefs[workflowId].onStart
            THEN invoke(m2, cs, "onStart", workflowId, NoStep)
            ELSE m2
      first == firstIncompleteStep(workflowId)
  IN IF first = 0 THEN m3
     ELSE executeStep(m3, cs, WorkflowDefs[workflowId].steps[first])

\* startWorkflow announcing the start before it looks the workflow up
startWorkflowEmitsFirst(m, cs, reg, workflowId, data) ==
  IF workflowId \notin reg
  THEN [emit(m, WORKFLOW_STARTED, workflowId, NoStep, EmptyData) EXCEPT !.threw = TRUE]
  ELSE startRegistered(m, cs, workflowId, data)

\* reg is workflowRegistry; not found: throw new Error(...)
startWorkflow(m, cs, reg, workflowId, data) ==
  IF workflowId \notin reg THEN [m EXCEPT !.threw = TRUE]
  ELSE startRegistered(m, cs, workflowId, data)

\* a stopWorkflow that runs the onCancel hook before it emits the event
stopWorkflowHookFirst(m, cs) ==
  LET m1 == IF cs.activeWorkflow = NoWorkflow THEN m
            ELSE LET h == IF WorkflowDefs[cs.activeWorkflow].onCancel
                          THEN invoke(m, cs, "onCancel", cs.activeWorkflow, NoStep)
                          ELSE m
                 IN emit(h, WORKFLOW_CANCELLED, cs.activeWorkflow, NoStep, EmptyData)
  IN dispatch(m1, [type |-> "STOP_WORKFLOW"])

stopWorkflow(m, cs) ==
  LET m1 == IF cs.activeWorkflow = NoWorkflow THEN m
            ELSE LET e == emit(m, WORKFLOW_CANCELLED, cs.activeWorkflow, NoStep, EmptyData)
                 IN IF WorkflowDefs[cs.activeWorkflow].onCancel
                    THEN invoke(e, cs, "onCancel", cs.activeWorkflow, NoStep)
                    ELSE e
  IN dispatch(m1, [type |-> "STOP_WORKFLOW"])

\* pauseWorkflow that reloads the active definition, dropping its completed flags
pauseWorkflowReloading(m, cs) ==
  IF cs.activeWorkflow = NoWorkflow THEN m
  ELSE emit(dispatch(dispatch(m, [type |-> "START_WORKFLOW", workflow |-> cs.activeWorkflow,
                                  data |-> EmptyData]),
                     [type |-> "PAUSE_WORKFLOW"]),
            WORKFLOW_PAUSED, cs.activeWorkflow, NoStep, EmptyData)

pauseWorkflow(m, cs) ==
  IF cs.activeWorkflow = NoWorkflow THEN m
  ELSE emit(dispatch(m, [type |-> "PAUSE_WORKFLOW"]),
            WORKFLOW_PAUSED, cs.activeWorkflow, NoStep, EmptyData)

\* a resumeWorkflow that also drops the current step
resumeWorkflowClearingStep(m, cs) ==
  IF cs.activeWorkflow = NoWorkflow THEN m
  ELSE emit(dispatch(dispatch(m, [type |-> "SET_CURRENT_STEP", stepId |-> NoStep]),
                     [type |-> "RESUME_WORKFLOW"]),
            WORKFLOW_RESUMED, cs.activeWorkflow, NoStep, EmptyData)

resumeWorkflow(m, cs) ==
  IF cs.activeWorkflow = NoWorkflow THEN m
  ELSE emit(dispatch(m, [type |-> "RESUME_WORKFLOW"]),
            WORKFLOW_RESUMED, cs.activeWorkflow, NoStep, EmptyData)

\* a skipToStep that honours the dependency check of findNextStep
skipToStepChecked(m, cs, stepId) ==
  IF cs.activeWorkflow = NoWorkflow THEN m
  ELSE IF stepId \notin StepsOf(cs.activeWorkflow) THEN m
  ELSE IF ~areDependenciesMet(stepId, cs) THEN m
  ELSE executeStep(m, cs, stepId)

skipToStep(m, cs, stepId) ==
  IF cs.activeWorkflow = NoWorkflow THEN m
  ELSE IF stepId \notin StepsOf(cs.activeWorkflow) THEN m
  ELSE executeStep(m, cs, stepId)

\* context.restartWorkflow: engine.stopWorkflow().then(() =>
\* engine.startWorkflow(workflow.id)), both halves on the engine of the render
\* that built the context; startWorkflow gets no contextData
restartWorkflow(m, cs, reg) ==
  IF cs.activeWorkflow = NoWorkflow THEN m
  ELSE startWorkflow(stopWorkflow(m, cs), cs, reg, cs.activeWorkflow, EmptyData)

----------------------------------------------------------------------------
(* Actions: one engine call each, made through the engine of the latest    *)
(* render (its closure holds the current reducer state)                    *)

World == [state |-> state, effects |-> <<>>, pending |-> pending, threw |-> FALSE, raises |-> NoRaise]

Commit(m) ==
  /\ Len(m.state.history) <= MaxHistory
  /\ Cardinality(m.pending) <= MaxPending
  /\ state' = m.state
  /\ effects' = m.effects
  /\ pending' = m.pending
  /\ threw' = m.threw
  /\ UNCHANGED <<candidate, report>>

\* the registry as the main component's mount effect leaves it
\* (exampleWorkflows.forEach(workflow => engine.registerWorkflow(workflow)))
exampleWorkflows == {"W", "H"}

Init ==
  /\ registry = exampleWorkflows
  /\ state = initialState
  /\ effects = <<>>
  /\ pending = {}
  /\ threw = FALSE
  /\ candidate = NoCandidate
  /\ report = NoReport

RegisterWorkflow(workflowId) ==
  /\ registry' = registry \cup {workflowId}
  /\ effects' = <<>>
  /\ threw' = FALSE
  /\ UNCHANGED <<state, pending, candidate, report>>

StartWorkflow(workflowId, data) ==
  /\ Commit(startWorkflow(World, Closure(state), registry, workflowId, data))
  /\ UNCHANGED registry

StopWorkflow ==
  /\ Commit(stopWorkflow(World, Closure(state)))
  /\ UNCHANGED registry

PauseWorkflow ==
  /\ Commit(pauseWorkflow(World, Closure(state)))
  /\ UNCHANGED registry

ResumeWorkflow ==
  /\ Commit(resumeWorkflow(World, Closure(state)))
  /\ UNCHANGED registry

CompleteStep(stepId, data) ==
  /\ Commit(completeStep(World, Closure(state), stepId, data))
  /\ UNCHANGED registry

SkipToStep(stepId) ==
  /\ Commit(skipToStep(World, Closure(state), stepId))
  /\ UNCHANGED registry

\* context.setData of the current context (null while no workflow is active)
SetData(key, value) ==
  /\ state.activeWorkflow # NoWorkflow
  /\ Commit(setData(World, key, value))
  /\ UNCHANGED registry

\* startWorkflow / completeStep while the listener or hook r raises
StartWorkflowRaising(workflowId, data, r) ==
  /\ Commit(startWorkflow([World EXCEPT !.raises = r], Closure(state), registry, workflowId, data))
  /\ UNCHANGED registry

CompleteStepRaising(stepId, data, r) ==
  /\ Commit(completeStep([World EXCEPT !.raises = r], Closure(state), stepId, data))
  /\ UNCHANGED registry

\* context.restartWorkflow of the current context (null while no workflow is active)
RestartWorkflow ==
  /\ state.activeWorkflow # NoWorkflow
  /\ Commit(restartWorkflow(World, Closure(state), registry))
  /\ UNCHANGED registry

\* the timer of the waiting onActivate p fires: the hook calls
\* context.completeStep(<its step>) on the engine it was given, returns, and
\* executeStep goes on
HookResumes(p) ==
  /\ LET m0 == [World EXCEPT !.pending = pending \ {p}]
         m1 == completeStep(m0, p.closureState, p.stepId, EmptyData)
     IN Commit(executeStepTail(m1, p.closureState, p.stepId))
  /\ UNCHANGED registry

TimerFires == \E p \in pending : HookResumes(p)

StartData == {DataOf("j", "v1")}
StepData == {DataOf("j", "v2")}
SetKeys == {"k"}
SetValues == {"v1"}

StartInputs == WorkflowIds \cup {UnknownId}

\* what may raise in a startWorkflow: a WORKFLOW_STARTED listener, the onStart hook
StartRaisers == {[kind |-> "emit", name |-> WORKFLOW_STARTED], [kind |-> "hook", name |-> "onStart"]}
\* what may raise in a completeStep: a STEP_COMPLETED listener, the step's onComplete hook
CompleteRaisers == {[kind |-> "emit", name |-> STEP_COMPLETED], [kind |-> "hook", name |-> "step.onComplete"]}
ListenerRaisers == {r \in StartRaisers \cup CompleteRaisers : r.kind = "emit"}

Next ==
  \/ \E w \in WorkflowIds : RegisterWorkflow(w)
  \/ \E w \in StartInputs, d \in StartData : StartWorkflow(w, d)
  \/ StopWorkflow
  \/ PauseWorkflow
  \/ ResumeWorkflow
  \/ \E s \in StepIds, d \in StepData : CompleteStep(s, d)
  \/ \E s \in StepIds : SkipToStep(s)
  \/ \E key \in SetKeys, value \in SetValues : SetData(key, value)
  \/ RestartWorkflow
  \/ \E w \in WorkflowIds, d \in StartData, r \in StartRaisers : StartWorkflowRaising(w, d, r)
  \/ \E s \in StepIds, d \in StepData, r \in CompleteRaisers : CompleteStepRaising(s, d, r)
  \/ TimerFires

Spec == Init /\ [][Next]_vars

----------------------------------------------------------------------------
(* Properties *)

Emitted(eff, type) == {i \in DOMAIN eff : eff[i].kind = "emit" /\ eff[i].name = type}
Invoked(eff, hook) == {i \in DOMAIN eff : eff[i].kind = "hook" /\ eff[i].name = hook}
StepsEmitted(eff, type) == {eff[i].stepId : i \in Emitted(eff, type)}

\* the call that produced eff began by emitting type: a startWorkflow that found
\* its workflow begins with WORKFLOW_STARTED, a completeStep that takes effect
\* (a caller's or a resumed hook's) with STEP_COMPLETED
Began(eff, type) == eff # <<>> /\ eff[1].kind = "emit" /\ eff[1].name = type

Active == state.activeWorkflow # NoWorkflow
AllRequiredComplete(st) == RequiredOf(st.activeWorkflow) \subseteq st.completed

\* the first step, in declaration order over the whole list, that is incomplete
\* and has every dependency complete (0 when there is none)
FirstEligible(st) ==
  LET steps == WorkflowDefs[st.activeWorkflow].steps
      eligible == {i \in DOMAIN steps : /\ steps[i] \notin st.completed
                                        /\ StepDef(steps[i]).dependencies \subseteq st.completed}
  IN IF eligible = {} THEN 0 ELSE CHOOSE i \in eligible : \A j \in eligible : i <= j

TypeOK ==
  /\ registry \subseteq WorkflowIds
  /\ state.activeWorkflow \in WorkflowIds \cup {NoWorkflow}
  /\ state.currentStepId \in StepIds \cup {NoStep}
  /\ state.paused \in BOOLEAN
  /\ Len(state.history) <= MaxHistory

----------------------------------------------------------------------------
\* C1 - dependency safety: a step that startWorkflow or the scan after
\* completeStep has just activated, and that is still the current step of the
\* active workflow when the call returns, has every dependency completed.
C1_DependencySafety ==
  (Active /\ (Began(effects, WORKFLOW_STARTED) \/ Began(effects, STEP_COMPLETED))) =>
    \A s \in StepsEmitted(effects, STEP_STARTED) :
       s = state.currentStepId => StepDef(s).dependencies \subseteq state.completed

\* C2 - completing the last incomplete required step completes the workflow at
\* once and exactly once: no state shows an active workflow whose required
\* steps are all completed, and no call emits WORKFLOW_COMPLETED twice.
C2_CompletesExactlyOnce ==
  /\ Active => ~AllRequiredComplete(state)
  /\ Cardinality(Emitted(effects, WORKFLOW_COMPLETED)) <= 1

\* C3 - a call that emits WORKFLOW_COMPLETED for the active workflow, or
\* invokes its onComplete hook, leaves no required step of that workflow
\* incomplete: each was completed before the call or by it.
C3_NoCompletionWhileRequiredIncomplete ==
  [][ (/\ state.activeWorkflow # NoWorkflow
       /\ \E i \in Emitted(effects', WORKFLOW_COMPLETED) \cup Invoked(effects', "onComplete") :
             effects'[i].workflowId = state.activeWorkflow)
      => RequiredOf(state.activeWorkflow) \subseteq
            (state.completed \cup StepsEmitted(effects', STEP_COMPLETED)) ]_vars

\* C4 - eligibility scan tie-break: after a completeStep that took effect and
\* did not complete the workflow, the first eligible step in declaration order
\* over the whole step list (the completed step counting as complete) has been
\* activated and is the current step.
C4_ScanActivatesFirstEligible ==
  (/\ Began(effects, STEP_COMPLETED)
   /\ Active
   /\ ~AllRequiredComplete(state)
   /\ FirstEligible(state) # 0)
  => LET next == WorkflowDefs[state.activeWorkflow].steps[FirstEligible(state)]
     IN state.currentStepId = next /\ next \in StepsEmitted(effects, STEP_STARTED)

\* C5 - scenario 1 on workflow W (A required; C optional, after A; B required,
\* after A): start leaves A current; completeStep('A') leaves C current;
\* completeStep('C') leaves B current; once A and B are completed W is no
\* longer active.
C5_Scenario1 ==
  state.activeWorkflow = "W" =>
    /\ Began(effects, WORKFLOW_STARTED) => state.currentStepId = "A"
    /\ (StepsEmitted(effects, STEP_COMPLETED) = {"A"} /\ state.completed = {"A"})
          => state.currentStepId = "C"
    /\ (StepsEmitted(effects, STEP_COMPLETED) = {"C"} /\ state.completed = {"A", "C"})
          => state.currentStepId = "B"
    /\ ~({"A", "B"} \subseteq state.completed)

\* C6 - a successful start from Idle loads initialData into the data mapping
\* before any hook or predicate runs (each of them reads the loaded values
\* through its context) and returns with the first eligible step current.
C6_StartLoadsDataThenActivates ==
  [][ (state.activeWorkflow = NoWorkflow /\ Began(effects', WORKFLOW_STARTED)) =>
        /\ \A d \in StartData : state'.data = Spread(state.data, d)
        /\ \A i \in DOMAIN effects' : effects'[i].kind = "hook" =>
              effects'[i].data = state'.data
        /\ (state'.activeWorkflow # NoWorkflow /\ FirstEligible(state') # 0) =>
              state'.currentStepId =
                 WorkflowDefs[state'.activeWorkflow].steps[FirstEligible(state')] ]_vars

\* C7 - startWorkflow with an id that is not registered throws and changes
\* nothing: the reducer state is the same, nothing is emitted, no hook runs.
C7_StartUnknownThrowsUnchanged ==
  [][ \A w \in StartInputs, d \in StartData :
        (w \notin registry /\ StartWorkflow(w, d)) =>
           (threw' /\ state' = state /\ effects' = <<>> /\ pending' = pending) ]_vars

\* a start that threw while a workflow was active
C7_Witness == threw /\ effects = <<>> /\ state.activeWorkflow # NoWorkflow

\* C8 - startWorkflow while a workflow is active throws and leaves the state
\* as it was; no WORKFLOW_STARTED is emitted for the call.
C8_StartWhileActiveConflicts ==
  [][ \A w \in StartInputs, d \in StartData :
        (state.activeWorkflow # NoWorkflow /\ StartWorkflow(w, d)) =>
           (threw' /\ state' = state /\ Emitted(effects', WORKFLOW_STARTED) = {}) ]_vars

\* C9 - stale-signal tolerance: completeStep for a step that is not the current
\* step, or with no active workflow, by a caller or by a waiting onActivate
\* hook, changes nothing, emits nothing, invokes no hook, activates no step.
C9_StaleCompleteStepIsNoOp ==
  [][ /\ \A s \in StepIds, d \in StepData :
           ((state.activeWorkflow = NoWorkflow \/ s # state.currentStepId) /\ CompleteStep(s, d))
             => (state' = state /\ effects' = <<>> /\ pending' = pending)
      /\ \A p \in pending :
           ((state.activeWorkflow = NoWorkflow \/ p.stepId # state.currentStepId) /\ HookResumes(p))
             => (state' = state /\ effects' = <<>>) ]_vars

\* C10 as stated - a completeStep that takes effect merges its data into the
\* data mapping: the keys of data get the given values, the others keep theirs.
C10_DataMerged ==
  [][ \A s \in StepIds, d \in StepData :
        (Began(effects', STEP_COMPLETED) /\ effects'[1].stepId = s /\ CompleteStep(s, d))
           => state'.data = Spread(state.data, d) ]_vars

\* C10 amended - a completeStep that takes effect does not merge its data into
\* the data mapping: a key changes only if a hook run by the call set it with
\* setData; the data is the payload of the history entry appended for the step
\* and of its STEP_COMPLETED event.
C10_DataRecordedNotMerged ==
  [][ (state.activeWorkflow # NoWorkflow /\ Began(effects', STEP_COMPLETED)) =>
        LET s == effects'[1].stepId
        IN \A d \in StepData :
             CompleteStep(s, d) =>
               /\ \A key \in Keys :
                     \/ state'.data[key] = state.data[key]
                     \/ /\ key = "k" /\ state'.data[key] = "v1"
                        /\ \E i \in Invoked(effects', "onActivate") :
                              StepDef(effects'[i].stepId).onActivate = "set"
               /\ Len(state'.history) > Len(state.history)
               /\ state'.history[Len(state.history) + 1] =
                     [workflowId |-> state.activeWorkflow, stepId |-> s, data |-> d]
               /\ effects'[1] = Effect("emit", STEP_COMPLETED, state.activeWorkflow, s, d) ]_vars

C10_Witness ==
  /\ Began(effects, STEP_COMPLETED)
  /\ \E key \in Keys : /\ effects[1].data[key] # Undef
                       /\ state.data[key] # Undef
                       /\ state.data[key] # effects[1].data[key]
  /\ state.history[Len(state.history)].data = effects[1].data

\* C11 - history records each completion once: a completeStep that takes
\* effect appends exactly one entry, carrying the active workflow's id, the
\* step's id and the payload, and the step has no earlier completion in the
\* same run (it was not already completed).
C11_HistoryOncePerRun ==
  [][ (state.activeWorkflow # NoWorkflow /\ Began(effects', STEP_COMPLETED)) =>
        LET s == effects'[1].stepId
        IN \A d \in StepData :
             CompleteStep(s, d) =>
               /\ Len(state'.history) = Len(state.history) + 1
               /\ state'.history[Len(state'.history)] =
                     [workflowId |-> state.activeWorkflow, stepId |-> s, data |-> d]
               /\ s \notin state.completed ]_vars

C13_CurrentStepIncomplete ==
  state.currentStepId # NoStep =>
    /\ state.activeWorkflow # NoWorkflow
    /\ state.currentStepId \in StepsOf(state.activeWorkflow)
    /\ state.currentStepId \notin state.completed

\* an active workflow with no eligible step and a required step incomplete
Stalled(st) ==
  /\ st.activeWorkflow # NoWorkflow
  /\ FirstEligible(st) = 0
  /\ ~AllRequiredComplete(st)

\* C14 - stalled state: when a completeStep takes effect and, with the step
\* counted as completed, no step is eligible while a required step is
\* incomplete, the workflow stays active, currentStepId is unset and neither
\* WORKFLOW_COMPLETED nor WORKFLOW_CANCELLED is emitted.
C14_StalledHasNoCurrentStep ==
  [][ (state.activeWorkflow # NoWorkflow /\ Began(effects', STEP_COMPLETED)) =>
        LET s == effects'[1].stepId
            after == [state EXCEPT !.completed = @ \cup {s}]
        IN \A d \in StepData :
             (Stalled(after) /\ CompleteStep(s, d)) =>
               /\ state'.activeWorkflow = state.activeWorkflow
               /\ state'.currentStepId = NoStep
               /\ Emitted(effects', WORKFLOW_COMPLETED) = {}
               /\ Emitted(effects', WORKFLOW_CANCELLED) = {} ]_vars

\* onActivate invocations and navigate calls in eff
Activations(eff) ==
  {i \in DOMAIN eff : \/ eff[i].kind = "navigate"
                      \/ eff[i].kind = "hook" /\ eff[i].name = "onActivate"}

\* C15 - while a pausable workflow is paused, a completeStep for the current
\* step that does not complete the workflow marks the step completed, appends
\* its history entry and makes the next eligible step current, and invokes no
\* onActivate hook and makes no navigation call.
C15_PausedCompletionDefersActivation ==
  [][ (/\ state.activeWorkflow # NoWorkflow
       /\ state.paused
       /\ WorkflowDefs[state.activeWorkflow].pausable
       /\ Began(effects', STEP_COMPLETED)
       /\ effects'[1].stepId = state.currentStepId
       /\ state'.activeWorkflow # NoWorkflow) =>
        \A d \in StepData :
          CompleteStep(state.currentStepId, d) =>
            /\ state.currentStepId \in state'.completed
            /\ Len(state'.history) = Len(state.history) + 1
            /\ FirstEligible(state') # 0 =>
                 state'.currentStepId =
                    WorkflowDefs[state'.activeWorkflow].steps[FirstEligible(state')]
            /\ Activations(effects') = {} ]_vars

\* the last call was a completeStep that took effect while the pausable workflow
\* was paused, left it active and paused with a next eligible step, and
\* activated nothing: the activation of that step is owed to resume
ActivationDeferred ==
  /\ state.activeWorkflow # NoWorkflow
  /\ WorkflowDefs[state.activeWorkflow].pausable
  /\ state.paused
  /\ Began(effects, STEP_COMPLETED)
  /\ Activations(effects) = {}
  /\ FirstEligible(state) # 0

\* C16 - resume after a completion that happened while paused runs the deferred
\* activation (onActivate and/or navigation) of the next eligible step, each at
\* most once; a resume with nothing deferred activates nothing.
C16_ResumeRunsDeferredActivation ==
  [][ (Began(effects', WORKFLOW_RESUMED) /\ ResumeWorkflow) =>
        IF ActivationDeferred
        THEN LET next == WorkflowDefs[state.activeWorkflow].steps[FirstEligible(state)]
                 acts == {i \in Activations(effects') : effects'[i].stepId = next}
             IN /\ acts # {}
                /\ Activations(effects') = acts
                /\ \A i, j \in acts : effects'[i].kind = effects'[j].kind => i = j
        ELSE Activations(effects') = {} ]_vars

\* C17 - pause is effective only on a pausable workflow: with no active
\* workflow, or an active workflow whose pausable flag is false, pause does not
\* set the paused flag and emits no WORKFLOW_PAUSED.
C17_PauseOnlyWhenPausable ==
  [][ (/\ \/ state.activeWorkflow = NoWorkflow
          \/ ~WorkflowDefs[state.activeWorkflow].pausable
       /\ PauseWorkflow) =>
        /\ ~state'.paused
        /\ Emitted(effects', WORKFLOW_PAUSED) = {} ]_vars

\* the target of a skip is a headless step whose completion condition holds on
\* the data the calling closure sees: its activation completes it at once
AutoCompletes(stepId) ==
  /\ StepDef(stepId).headless
  /\ StepDef(stepId).completionCondition # NoCondition
  /\ completionCondition(stepId, Closure(state))

Idle(st) == st.activeWorkflow = NoWorkflow /\ st.currentStepId = NoStep /\ ~st.paused

\* C19 (as stated) - cancel on an active workflow invokes the workflow's
\* onCancel hook and only then emits WORKFLOW_CANCELLED.
C19_HookBeforeCancelledEvent ==
  [][ (state.activeWorkflow # NoWorkflow /\ StopWorkflow) =>
        \A i \in Invoked(effects', "onCancel"), j \in Emitted(effects', WORKFLOW_CANCELLED) : i < j ]_vars

\* C19 (amended) - cancel on an active workflow emits WORKFLOW_CANCELLED
\* exactly once, as the first thing it does, then invokes the workflow's
\* onCancel hook once if it has one, and leaves the engine Idle; cancel with no
\* active workflow emits nothing and invokes no hook.
C19_CancelledEventThenHook ==
  [][ StopWorkflow =>
        IF state.activeWorkflow # NoWorkflow
        THEN /\ Emitted(effects', WORKFLOW_CANCELLED) = {1}
             /\ effects'[1].workflowId = state.activeWorkflow
             /\ Invoked(effects', "onCancel") =
                  IF WorkflowDefs[state.activeWorkflow].onCancel THEN {2} ELSE {}
             /\ Len(effects') = IF WorkflowDefs[state.activeWorkflow].onCancel THEN 2 ELSE 1
             /\ Idle(state')
        ELSE effects' = <<>> ]_vars

\* C19 witness - a workflow with an onCancel hook has just been cancelled
C19_Witness ==
  /\ Idle(state)
  /\ Began(effects, WORKFLOW_CANCELLED)
  /\ effects[1].workflowId = "H"
  /\ Invoked(effects, "onCancel") # {}

\* C20 - the data mapping is workflow-scoped: whenever no workflow is active
\* (initially, after a cancel, after a workflow completion) the data mapping
\* is empty, so the next workflow started sees only its own initialData.
C20_DataEmptyWhenIdle ==
  state.activeWorkflow = NoWorkflow => state.data = EmptyData

\* h is a prefix of g
IsPrefix(h, g) == Len(h) <= Len(g) /\ \A i \in DOMAIN h : g[i] = h[i]

\* C21 - the history is append-only: across every transition taken while a
\* workflow is active, the history before it is a prefix of the history after
\* it (no entry removed, reordered or modified).
C21_HistoryAppendOnly ==
  [][ state.activeWorkflow # NoWorkflow => IsPrefix(state.history, state'.history) ]_vars

\* C21 witness - a second entry has been appended behind a first one while a
\* workflow is active
C21_Witness ==
  /\ state.activeWorkflow # NoWorkflow
  /\ Len(state.history) = 2
  /\ Began(effects, STEP_COMPLETED)
  /\ state.history[2].stepId = effects[1].stepId

\* C22 - restart behaves as cancel followed by start of the same workflow id:
\* afterwards the same workflow is active, every step is incomplete, the first
\* eligible step is current, and WORKFLOW_CANCELLED was emitted before
\* WORKFLOW_STARTED.
C22_RestartIsCancelThenStart ==
  [][ (Began(effects', WORKFLOW_CANCELLED) /\ RestartWorkflow) =>
        /\ state'.activeWorkflow = state.activeWorkflow
        /\ state'.completed = {}
        /\ FirstEligible(state') # 0 =>
             state'.currentStepId = WorkflowDefs[state'.activeWorkflow].steps[FirstEligible(state')]
        /\ Emitted(effects', WORKFLOW_STARTED) # {}
        /\ \A i \in Emitted(effects', WORKFLOW_CANCELLED), j \in Emitted(effects', WORKFLOW_STARTED) : i < j ]_vars

\* the guard of the conditional step stepId is false on data
GuardFalse(stepId, data) ==
  /\ StepDef(stepId).completionCondition # NoCondition
  /\ data[StepDef(stepId).completionCondition] # Undef

\* C23 - a conditional step (headless or interactive) activated while its
\* guard is false is completed without side effects: the call completes it,
\* records no navigation and no onActivate invocation for it, and activates
\* the next eligible step at once.
C23_GuardFalseSkipsWithoutSideEffects ==
  [][ \A i \in Emitted(effects', STEP_STARTED) :
        LET s == effects'[i].stepId
        IN GuardFalse(s, state.data) =>
             /\ \E j \in Emitted(effects', STEP_COMPLETED) : j > i /\ effects'[j].stepId = s
             /\ \A j \in Activations(effects') : effects'[j].stepId # s
             /\ (state'.activeWorkflow # NoWorkflow /\ FirstEligible(state') # 0) =>
                  \E j \in Emitted(effects', STEP_STARTED) :
                     /\ j > i
                     /\ effects'[j].stepId = WorkflowDefs[state'.activeWorkflow].steps[FirstEligible(state')] ]_vars

\* C24 - when a headless step that carries a completion predicate is
\* activated, the predicate is evaluated right after the activation on the
\* current data mapping, the values its own onActivate wrote through setData
\* included (keys are never unset, so that is the mapping the call leaves): if
\* it holds the step is completed by the same call, otherwise the step stays
\* current and incomplete.
C24_PredicateSeesCurrentData ==
  [][ \A i \in Emitted(effects', STEP_STARTED) :
        LET s == effects'[i].stepId
        IN (StepDef(s).headless /\ StepDef(s).completionCondition # NoCondition) =>
             IF state'.data[StepDef(s).completionCondition] # Undef
             THEN \E j \in Emitted(effects', STEP_COMPLETED) : j > i /\ effects'[j].stepId = s
             ELSE state'.currentStepId = s /\ s \notin state'.completed ]_vars

Navigations(eff, stepId) == {i \in DOMAIN eff : eff[i].kind = "navigate" /\ eff[i].stepId = stepId}

\* C25 - activation protocol: every activation of an interactive step (a
\* STEP_STARTED for it) is followed in the same call by exactly one navigate
\* call, carrying the step's screen, and leaves the step current; the
\* activation of a headless step produces no navigate call, even when the
\* step carries a screen.
C25_ActivationNavigatesInteractiveOnly ==
  [][ \A i \in Emitted(effects', STEP_STARTED) :
        LET s == effects'[i].stepId
        IN IF StepDef(s).headless
           THEN Navigations(effects', s) = {}
           ELSE /\ \E j \in Navigations(effects', s) :
                     /\ Navigations(effects', s) = {j}
                     /\ j > i
                     /\ effects'[j].name = StepDef(s).screen
                /\ state'.currentStepId = s ]_vars

\* C25 witness - the last call activated the headless step Y, which carries a
\* screen, and navigated nowhere for it
C25_Witness ==
  /\ "Y" \in StepsEmitted(effects, STEP_STARTED)
  /\ StepDef("Y").screen # NoScreen
  /\ Navigations(effects, "Y") = {}

\* params with every placeholder whose key data maps replaced by the mapped
\* value, and every other entry as it is
Resolved(params, data) ==
  [p \in Keys |->
     IF \E key \in Keys : params[p] = Placeholder(key) /\ data[key] # Undef
     THEN data[CHOOSE key \in Keys : params[p] = Placeholder(key)]
     ELSE params[p]]

\* C26 - the parameters passed to navigate are the step's template with every
\* placeholder {{key}} whose key is present in the data mapping replaced by
\* the mapped value, and every placeholder whose key is absent passed through
\* as it is.
C26_PlaceholdersSubstituted ==
  [][ \A i \in DOMAIN effects' :
        effects'[i].kind = "navigate" =>
          effects'[i].data = Resolved(StepDef(effects'[i].stepId).navigationParams, state'.data) ]_vars

\* C27 - serialized transitions: of two concurrent completeStep calls naming
\* the same step, a caller's and the one the step's own waiting onActivate
\* makes, exactly one takes effect.  The hook p was started while its step was
\* incomplete; once the other call has completed the step, the hook's call
\* appends no history entry, emits no STEP_COMPLETED and activates nothing.
C27_SecondCompletionHasNoEffect ==
  [][ \A p \in pending :
        (/\ p.closureState.activeWorkflow = state.activeWorkflow
         /\ p.stepId \notin p.closureState.completed
         /\ p.stepId \in state.completed
         /\ HookResumes(p)) =>
          /\ state'.history = state.history
          /\ Emitted(effects', STEP_COMPLETED) = {}
          /\ Emitted(effects', STEP_STARTED) = {}
          /\ Activations(effects') = {} ]_vars

\* C28 - event isolation: when a listener raises while it handles an event a
\* startWorkflow or completeStep call emits, the call still makes its whole
\* transition and its hook invocations, as the same call does when no listener
\* raises, and the exception does not reach the caller.
C28_ListenerExceptionIsolated ==
  [][ \A r \in ListenerRaisers :
        /\ \A w \in WorkflowIds, d \in StartData :
             (w \in registry /\ r \in StartRaisers /\ StartWorkflowRaising(w, d, r)) =>
               LET quiet == startWorkflow(World, Closure(state), registry, w, d)
               IN ~threw' /\ state' = quiet.state /\ effects' = quiet.effects /\ pending' = quiet.pending
        /\ \A s \in StepIds, d \in StepData :
             (r \in CompleteRaisers /\ CompleteStepRaising(s, d, r)) =>
               LET quiet == completeStep(World, Closure(state), s, d)
               IN ~threw' /\ state' = quiet.state /\ effects' = quiet.effects /\ pending' = quiet.pending ]_vars

\* C29 - a hook failure does not roll back committed state: when the step's
\* onComplete hook raises during completeStep, the step is marked completed,
\* its history entry is there, and the caller gets the failure; when onStart
\* raises during startWorkflow, the workflow is active and the caller gets the
\* failure.
C29_HookFailureKeepsCommittedState ==
  [][ /\ \A s \in StepIds, d \in StepData :
           (/\ state.activeWorkflow # NoWorkflow
            /\ s \in StepsOf(state.activeWorkflow)
            /\ StepDef(s).onComplete
            /\ Began(effects', STEP_COMPLETED)
            /\ CompleteStepRaising(s, d, [kind |-> "hook", name |-> "step.onComplete"])) =>
             /\ threw'
             /\ state'.activeWorkflow = state.activeWorkflow
             /\ s \in state'.completed
             /\ state'.history = Append(state.history,
                                        [workflowId |-> state.activeWorkflow, stepId |-> s, data |-> d])
      /\ \A w \in WorkflowIds, d \in StartData :
           (/\ w \in registry
            /\ WorkflowDefs[w].onStart
            /\ Began(effects', WORKFLOW_STARTED)
            /\ StartWorkflowRaising(w, d, [kind |-> "hook", name |-> "onStart"])) =>
             /\ threw'
             /\ state'.activeWorkflow = w ]_vars

\* C29 witness - a completeStep has just failed in the step's onComplete hook
\* and the step is completed and in the history
C29_Witness ==
  /\ threw
  /\ Began(effects, STEP_COMPLETED)
  /\ Invoked(effects, "step.onComplete") = {Len(effects)}
  /\ effects[1].stepId \in state.completed
  /\ state.history # <<>>
  /\ state.history[Len(state.history)].stepId = effects[1].stepId

----------------------------------------------------------------------------
(* WorkflowUtils.validate, applied to definitions drawn from a bounded set  *)

MaxSteps == 2

Violation(kind, stepId, depId) == [kind |-> kind, stepId |-> stepId, depId |-> depId]

\* the errors validate pushes for the step at index i: stepIds holds the ids
\* of the steps visited before it, and the step's own id once the duplicate
\* test is done
stepErrors(steps, i) ==
  LET step == steps[i]
      seen == {steps[j].id : j \in 1..(i - 1)}
      stepIds == seen \cup {step.id}
  IN UNION {
       IF step.id \in seen THEN {Violation("Duplicate step ID", step.id, "")} ELSE {},
       {Violation("depends on non-existent step", step.id, depId) :
          depId \in {d \in step.dependencies : d \notin stepIds}},
       IF step.headless /\ step.onActivate = NoHook /\ step.completionCondition = NoCondition
       THEN {Violation("Headless step must have onActivate or completionCondition", step.id, "")}
       ELSE {},
       IF ~step.headless /\ step.screen = NoScreen
       THEN {Violation("must have a screen or be marked as headless", step.id, "")}
       ELSE {} }

\* WorkflowUtils.validate: the errors as a set (the claims read membership,
\* not order or multiplicity)
validateWorkflow(workflow) ==
  LET errors == UNION {
        IF workflow.id = "" THEN {Violation("Workflow must have an id", "", "")} ELSE {},
        IF workflow.name = "" THEN {Violation("Workflow must have a name", "", "")} ELSE {},
        IF Len(workflow.steps) = 0
        THEN {Violation("Workflow must have at least one step", "", "")} ELSE {},
        UNION {stepErrors(workflow.steps, i) : i \in DOMAIN workflow.steps} }
  IN [valid |-> errors = {}, errors |-> errors]

\* the definition object registered under workflowId
Definition(workflowId) ==
  [id |-> workflowId, name |-> workflowId,
   steps |-> [i \in DOMAIN WorkflowDefs[workflowId].steps |-> StepDef(WorkflowDefs[workflowId].steps[i])]]

\* WorkflowUtils.validate(workflow).valid for a definition of the model
validate(workflowId) == validateWorkflow(Definition(workflowId)).valid

\* the steps a candidate definition is made of: an interactive step with and
\* without a screen, a headless step with a hook, with a predicate, with neither
StepKinds ==
  {[headless |-> FALSE, screen |-> "S",      onActivate |-> NoHook, completionCondition |-> NoCondition],
   [headless |-> FALSE, screen |-> NoScreen, onActivate |-> NoHook, completionCondition |-> NoCondition],
   [headless |-> TRUE,  screen |-> NoScreen, onActivate |-> "set",  completionCondition |-> NoCondition],
   [headless |-> TRUE,  screen |-> NoScreen, onActivate |-> NoHook, completionCondition |-> "k"],
   [headless |-> TRUE,  screen |-> NoScreen, onActivate |-> NoHook, completionCondition |-> NoCondition]}

CandidateSteps ==
  {[id |-> id, headless |-> kind.headless, screen |-> kind.screen, onActivate |-> kind.onActivate,
    completionCondition |-> kind.completionCondition, dependencies |-> dependencies,
    required |-> TRUE, completed |-> FALSE] :
     id \in {"a", "b"}, kind \in StepKinds, dependencies \in {{}, {"a"}, {"b"}, {"x"}}}

Candidates ==
  [id : {"", "W"}, name : {"", "n"},
   steps : UNION {[1..n -> CandidateSteps] : n \in 0..MaxSteps}]

InitValidate ==
  /\ registry = exampleWorkflows
  /\ state = initialState
  /\ effects = <<>>
  /\ pending = {}
  /\ threw = FALSE
  /\ candidate \in Candidates
  /\ report = NoReport

Validate ==
  /\ report = NoReport
  /\ report' = validateWorkflow(candidate)
  /\ UNCHANGED <<registry, state, effects, pending, threw, candidate>>

NextValidate == Validate

SpecValidate == InitValidate /\ [][NextValidate]_vars

\* C30 - the registry never stores an invalid definition: registerWorkflow of
\* a definition that validation rejects leaves the registry as it was, and no
\* invalid definition is ever the active workflow.
C30_InvalidDefinitionNotStored ==
  [][ /\ \A w \in WorkflowIds : (~validate(w) /\ RegisterWorkflow(w)) => registry' = registry
      /\ state'.activeWorkflow # NoWorkflow => validate(state'.activeWorkflow) ]_vars

----------------------------------------------------------------------------
(* Validation claims, on SpecValidate *)

Validated == report # NoReport
IdsOf(workflow) == {workflow.steps[i].id : i \in DOMAIN workflow.steps}

\* the violations a definition has, as the claim lists them
ViolationsOf(workflow) ==
  LET steps == workflow.steps
  IN UNION {
       IF workflow.id = "" THEN {Violation("Workflow must have an id", "", "")} ELSE {},
       IF workflow.name = "" THEN {Violation("Workflow must have a name", "", "")} ELSE {},
       IF Len(steps) = 0 THEN {Violation("Workflow must have at least one step", "", "")} ELSE {},
       {Violation("Duplicate step ID", steps[i].id, "") :
          i \in {i \in DOMAIN steps : \E j \in DOMAIN steps : j # i /\ steps[j].id = steps[i].id}},
       UNION {{Violation("depends on non-existent step", steps[i].id, depId) :
                 depId \in {d \in steps[i].dependencies : d \notin IdsOf(workflow)}} : i \in DOMAIN steps},
       {Violation("Headless step must have onActivate or completionCondition", steps[i].id, "") :
          i \in {i \in DOMAIN steps : /\ steps[i].headless
                                      /\ steps[i].onActivate = NoHook
                                      /\ steps[i].completionCondition = NoCondition}},
       {Violation("must have a screen or be marked as headless", steps[i].id, "") :
          i \in {i \in DOMAIN steps : ~steps[i].headless /\ steps[i].screen = NoScreen}} }

\* C31 - validation is complete and exhaustive: validate reports a definition
\* valid exactly when it has none of the listed violations, and the errors of
\* an invalid definition hold an entry for every violation present.
C31_ValidationExact ==
  Validated =>
    /\ report.valid <=> ViolationsOf(candidate) = {}
    /\ ViolationsOf(candidate) \subseteq report.errors

\* C32 - validation rejects only dangling dependencies: a dependency is
\* reported as an error exactly when no step of the workflow, declared earlier
\* or later, has that id.
C32_OnlyDanglingDependenciesRejected ==
  Validated =>
    \A i \in DOMAIN candidate.steps :
      \A depId \in candidate.steps[i].dependencies :
         Violation("depends on non-existent step", candidate.steps[i].id, depId) \in report.errors
           <=> depId \notin IdsOf(candidate)

\* the pairs <<step, step it depends on>>, directly (n = 0) or through up to n
\* other steps
DirectDependencies(workflow) ==
  UNION {{<<workflow.steps[i].id, depId>> : depId \in workflow.steps[i].dependencies} :
           i \in DOMAIN workflow.steps}

RECURSIVE DependsOn(_, _)
DependsOn(workflow, n) ==
  IF n = 0 THEN DirectDependencies(workflow)
  ELSE LET R == DependsOn(workflow, n - 1)
       IN R \cup {<<p[1][1], p[2][2]>> : p \in {q \in R \X R : q[1][2] = q[2][1]}}

\* C36 - every definition validate accepts has an acyclic dependency relation
\* (no step depends on itself, directly or through other steps), and each of
\* its steps depends only on steps declared before it, so it becomes eligible
\* once those are completed.
C36_ValidatedIsAcyclic ==
  (Validated /\ report.valid) =>
    /\ \A p \in DependsOn(candidate, Len(candidate.steps)) : p[1] # p[2]
    /\ \A i \in DOMAIN candidate.steps :
         candidate.steps[i].dependencies \subseteq {candidate.steps[j].id : j \in 1..(i - 1)}

----------------------------------------------------------------------------
(* WorkflowStorage: a JSON text is modelled by the object it denotes, a     *)
(* function from the property names present to their values; a Date by its *)
(* milliseconds                                                            *)

\* completedAt values given to the history entries of a state under test
Times == {0, 999, 1000, 61001}

\* the state with the completedAt the reducer stamps on each history entry
Stamped(st, times) ==
  [st EXCEPT !.history = [i \in DOMAIN st.history |->
      [workflowId |-> st.history[i].workflowId, stepId |-> st.history[i].stepId,
       data |-> st.history[i].data, completedAt |-> times[i]]]]

\* a toISOString that stops at the seconds
toISOStringSeconds(t) == [seconds |-> t \div 1000, millis |-> 0]

\* Date.prototype.toISOString: the date and time down to the second, then
\* three digits of milliseconds
toISOString(t) == [seconds |-> t \div 1000, millis |-> t % 1000]

\* new Date(isoString)
newDate(iso) == iso.seconds * 1000 + iso.millis

\* JSON.stringify of a data object: properties whose value is undefined are left out
dataJson(data) == [key \in {k \in Keys : data[k] # Undef} |-> data[key]]

\* JSON.parse of it, read through the model's keys
dataOfJson(json) == [key \in Keys |-> IF key \in DOMAIN json THEN json[key] ELSE Undef]

\* JSON.stringify of the active definition: the hooks and predicates, being
\* functions, are left out; the steps keep their ids and completed flags
workflowJson(st) ==
  [id |-> st.activeWorkflow,
   steps |-> [i \in DOMAIN WorkflowDefs[st.activeWorkflow].steps |->
                [id |-> WorkflowDefs[st.activeWorkflow].steps[i],
                 completed |-> WorkflowDefs[st.activeWorkflow].steps[i] \in st.completed]]]

\* one history entry with completedAt as an ISO string; an undefined data is left out
entryJson(entry) ==
  [key \in {"workflowId", "stepId", "completedAt"} \cup (IF entry.data = EmptyData THEN {} ELSE {"data"}) |->
     CASE key = "workflowId" -> entry.workflowId
       [] key = "stepId" -> entry.stepId
       [] key = "completedAt" -> toISOString(entry.completedAt)
       [] key = "data" -> dataJson(entry.data)]

\* WorkflowStorage.serialize
serialize(st) ==
  [key \in {"paused", "data", "history"}
           \cup (IF st.activeWorkflow = NoWorkflow THEN {} ELSE {"activeWorkflow"})
           \cup (IF st.currentStepId = NoStep THEN {} ELSE {"currentStepId"}) |->
     CASE key = "activeWorkflow" -> workflowJson(st)
       [] key = "currentStepId" -> st.currentStepId
       [] key = "paused" -> st.paused
       [] key = "data" -> dataJson(st.data)
       [] key = "history" -> [i \in DOMAIN st.history |-> entryJson(st.history[i])]]

\* WorkflowStorage.deserialize
deserialize(json) ==
  [activeWorkflow |-> IF "activeWorkflow" \in DOMAIN json THEN json["activeWorkflow"].id ELSE NoWorkflow,
   completed |-> IF "activeWorkflow" \in DOMAIN json
                 THEN {json["activeWorkflow"].steps[i].id :
                         i \in {i \in DOMAIN json["activeWorkflow"].steps : json["activeWorkflow"].steps[i].completed}}
                 ELSE {},
   currentStepId |-> IF "currentStepId" \in DOMAIN json THEN json["currentStepId"] ELSE NoStep,
   paused |-> json["paused"],
   data |-> dataOfJson(json["data"]),
   history |-> [i \in DOMAIN json["history"] |->
      LET entry == json["history"][i]
      IN [workflowId |-> entry["workflowId"], stepId |-> entry["stepId"],
          data |-> IF "data" \in DOMAIN entry THEN dataOfJson(entry["data"]) ELSE EmptyData,
          completedAt |-> newDate(entry["completedAt"])]]]

----------------------------------------------------------------------------
(* WorkflowUtils.getProgress                                               *)

\* state.activeWorkflow as an object: the definition with the completed
\* flags the reducer has set on its steps
activeDefinition(st) ==
  [id |-> st.activeWorkflow, name |-> st.activeWorkflow,
   steps |-> [i \in DOMAIN WorkflowDefs[st.activeWorkflow].steps |->
                [StepDef(WorkflowDefs[st.activeWorkflow].steps[i])
                   EXCEPT !.completed = WorkflowDefs[st.activeWorkflow].steps[i] \in st.completed]]]

\* steps.filter(...) as the positions kept
visibleSteps(workflow) == {i \in DOMAIN workflow.steps : ~workflow.steps[i].headless}
requiredSteps(workflow) == {i \in DOMAIN workflow.steps : workflow.steps[i].required}

\* a getProgress that counts the completed steps among all the steps
getProgressAllSteps(workflow) ==
  LET completed == Cardinality({i \in DOMAIN workflow.steps : workflow.steps[i].completed})
      total == Cardinality(visibleSteps(workflow))
  IN [completed |-> completed,
      total |-> total,
      percentage |-> IF total > 0 THEN [num |-> completed * 100, den |-> total]
                                  ELSE [num |-> 0, den |-> 1],
      requiredCompleted |-> Cardinality({i \in requiredSteps(workflow) : workflow.steps[i].completed}),
      requiredTotal |-> Cardinality(requiredSteps(workflow))]

\* WorkflowUtils.getProgress; percentage is the quotient num / den
getProgress(workflow) ==
  LET completed == Cardinality({i \in visibleSteps(workflow) : workflow.steps[i].completed})
      total == Cardinality(visibleSteps(workflow))
  IN [completed |-> completed,
      total |-> total,
      percentage |-> IF total > 0 THEN [num |-> completed * 100, den |-> total]
                                  ELSE [num |-> 0, den |-> 1],
      requiredCompleted |-> Cardinality({i \in requiredSteps(workflow) : workflow.steps[i].completed}),
      requiredTotal |-> Cardinality(requiredSteps(workflow))]

\* C34 - getProgress is consistent for the active workflow in every completion
\* state: total is the number of non-headless steps, 0 <= completed <= total,
\* requiredCompleted <= requiredTotal = the number of required steps, and
\* percentage is completed / total * 100 (0 when total is 0), never above 100.
C34_ProgressConsistent ==
  Active =>
    LET workflow == activeDefinition(state)
        progress == getProgress(workflow)
    IN /\ progress.total = Cardinality({i \in DOMAIN workflow.steps : ~workflow.steps[i].headless})
       /\ 0 <= progress.completed /\ progress.completed <= progress.total
       /\ progress.requiredCompleted <= progress.requiredTotal
       /\ progress.requiredTotal = Cardinality({i \in DOMAIN workflow.steps : workflow.steps[i].required})
       /\ IF progress.total = 0
          THEN progress.percentage.num = 0
          ELSE progress.percentage.num * progress.total = progress.completed * 100 * progress.percentage.den
       /\ progress.percentage.num <= 100 * progress.percentage.den

\* C34 witness - the headless workflow with a completed step (no visible
\* step: total 0, percentage 0), and getProgress reporting its required count
C34_Witness ==
  /\ state.activeWorkflow = "H"
  /\ state.completed # {}
  /\ getProgress(activeDefinition(state)).total = 0
  /\ getProgress(activeDefinition(state)).requiredCompleted = 1

----------------------------------------------------------------------------
(* The engine running G alone: a headless step that waits on a timer, with *)
(* a step after it that the scan can reach                                *)

timerWorkflows == {"G"}

InitTimer ==
  /\ registry = timerWorkflows
  /\ state = initialState
  /\ effects = <<>>
  /\ pending = {}
  /\ threw = FALSE
  /\ candidate = NoCandidate
  /\ report = NoReport

NextTimer ==
  \/ \E w \in timerWorkflows, d \in StartData : StartWorkflow(w, d)
  \/ StopWorkflow
  \/ PauseWorkflow
  \/ ResumeWorkflow
  \/ \E s \in StepsOf("G"), d \in StepData : CompleteStep(s, d)
  \/ \E s \in StepsOf("G") : SkipToStep(s)
  \/ \E key \in SetKeys, value \in SetValues : SetData(key, value)
  \/ TimerFires

SpecTimer == InitTimer /\ [][NextTimer]_vars

\* C37 - Idle invariant: in every reachable state, hooks left waiting across
\* a cancel or completion included, no active workflow implies that
\* currentStepId is unset and paused is false.
C37_IdleInvariant == state.activeWorkflow = NoWorkflow => Idle(state)

\* the state after pauseWorkflow() and then resumeWorkflow(), each called
\* from the render that follows the state it acts on
AfterPauseResume(st) ==
  LET paused == pauseWorkflow([World EXCEPT !.state = st], Closure(st)).state
  IN resumeWorkflow([World EXCEPT !.state = paused], Closure(paused)).state

\* pause and resume leave everything but the paused flag as it was
OnlyPausedChanges ==
  (PauseWorkflow \/ ResumeWorkflow) =>
     /\ state'.activeWorkflow = state.activeWorkflow
     /\ state'.currentStepId = state.currentStepId
     /\ state'.completed = state.completed
     /\ state'.data = state.data
     /\ state'.history = state.history

----------------------------------------------------------------------------
(* Progress figures shown to the user *)

\* WorkflowNavigator.enhancedStackOptions: the two numbers of the header
\* title `${name} (${completedSteps}/${totalSteps})`
enhancedStackOptions(workflow) ==
  [totalSteps |-> Cardinality({i \in DOMAIN workflow.steps : ~workflow.steps[i].headless}),
   completedSteps |-> Cardinality({i \in DOMAIN workflow.steps : workflow.steps[i].completed})]

\* calculateOnboardingProgress; percentage is the quotient num / den
calculateOnboardingProgress(workflow) ==
  LET totalSteps == Cardinality({i \in DOMAIN workflow.steps : ~workflow.steps[i].headless})
      completedSteps == Cardinality({i \in DOMAIN workflow.steps : workflow.steps[i].completed})
  IN [current |-> completedSteps,
      total |-> totalSteps,
      percentage |-> IF totalSteps > 0 THEN [num |-> completedSteps * 100, den |-> totalSteps]
                                       ELSE [num |-> 0, den |-> 1]]

\* C40 - the figures shown never overshoot: in every reachable state of an
\* active workflow the completed-step count shown by the navigator header and
\* by the onboarding hook is at most the total shown with it, and the
\* onboarding percentage is at most 100, completed headless steps included.
C40_ProgressNeverOvershoots ==
  Active =>
    LET header == enhancedStackOptions(activeDefinition(state))
        progress == calculateOnboardingProgress(activeDefinition(state))
    IN /\ header.completedSteps <= header.totalSteps
       /\ progress.current <= progress.total
       /\ progress.percentage.num <= 100 * progress.percentage.den

----------------------------------------------------------------------------
(* Runs of a validated workflow in which nothing cancels it, skipToStep is *)
(* not used and the step that was activated is completed by name           *)

validWorkflows == {w \in DOMAIN WorkflowDefs : validate(w)}

InitProgress ==
  /\ registry = validWorkflows
  /\ state = initialState
  /\ effects = <<>>
  /\ pending = {}
  /\ threw = FALSE
  /\ candidate = NoCandidate
  /\ report = NoReport

\* startWorkflow of a registered workflow while none, or that same one, is active
StartRun(workflowId, data) ==
  /\ state.activeWorkflow \in {NoWorkflow, workflowId}
  /\ StartWorkflow(workflowId, data)

\* the step that was activated and is not yet completed
Activated(st) ==
  IF st.activeWorkflow # NoWorkflow /\ st.currentStepId \in StepsOf(st.activeWorkflow) \ st.completed
  THEN {st.currentStepId} ELSE {}

\* completeStep naming the activated step
CompleteActivated == \E s \in Activated(state), d \in StepData : CompleteStep(s, d)

NextProgress ==
  \/ \E w \in validWorkflows, d \in StartData : StartRun(w, d)
  \/ CompleteActivated
  \/ PauseWorkflow
  \/ ResumeWorkflow
  \/ \E key \in SetKeys, value \in SetValues : SetData(key, value)

\* every activated step is eventually completed by a completeStep naming it
SpecProgress == InitProgress /\ [][NextProgress]_vars /\ WF_vars(CompleteActivated)

\* C35 - progress: in a run of a validated workflow that is started, never
\* cancelled and never skipped in, and in which every activated step is
\* completed by a completeStep naming it, the workflow never stalls: while it
\* is active, a step is activated and awaits its completeStep, so that the
\* run goes on to WORKFLOW_COMPLETED and Idle.
C35_NeverStalls == Active => Activated(state) # {}

\* the STEP_STARTED and STEP_COMPLETED events in eff
StepEvents(eff) == Emitted(eff, STEP_STARTED) \cup Emitted(eff, STEP_COMPLETED)

\* the events in eff that end a run of workflowId, and those that begin one
RunEnds(eff, workflowId) ==
  {i \in Emitted(eff, WORKFLOW_COMPLETED) \cup Emitted(eff, WORKFLOW_CANCELLED) :
     eff[i].workflowId = workflowId}
RunBegins(eff, workflowId) == {i \in Emitted(eff, WORKFLOW_STARTED) : eff[i].workflowId = workflowId}

\* C38 - event ordering within one workflow run, as far as one engine call
\* shows it: a step event emitted while no run is in progress follows the
\* WORKFLOW_STARTED of its run; a STEP_COMPLETED for s emitted by completeStep
\* in a run in which no step has been started yet follows a STEP_STARTED for
\* s; and no step event of a run follows the run's WORKFLOW_COMPLETED or
\* WORKFLOW_CANCELLED.
C38_EventOrdering ==
  [][ /\ state.activeWorkflow = NoWorkflow =>
           \A i \in StepEvents(effects') :
              \E j \in RunBegins(effects', effects'[i].workflowId) : j < i
      /\ \A s \in StepIds, d \in StepData :
           (state.activeWorkflow # NoWorkflow /\ state.currentStepId = NoStep /\ CompleteStep(s, d)) =>
              \A i \in Emitted(effects', STEP_COMPLETED) :
                 effects'[i].stepId = s =>
                    \E j \in Emitted(effects', STEP_STARTED) : j < i /\ effects'[j].stepId = s
      /\ \A i \in StepEvents(effects') :
           \A e \in RunEnds(effects', effects'[i].workflowId) :
              e < i => \E j \in RunBegins(effects', effects'[i].workflowId) : e < j /\ j < i ]_vars

====
